---------------------------- MODULE Spec2Model ----------------------------
(***************************************************************************)
(* Notebook page generator (src/generate.py): the pattern generators, the  *)
(* sheet imposer create_imposed_page and the document assembler            *)
(* create_notebook_pdf, writing to a reportlab canvas.                     *)
(*                                                                         *)
(* The canvas is modelled by what it receives: `ops`, the ordered log of   *)
(* the drawing operations, page breaks and the final save, and `gs`, the   *)
(* graphics state (stroke gray, line width, dash, fill gray) in force.     *)
(* Every logged operation records the graphics state it was drawn with.    *)
(*                                                                         *)
(* Numbers.  The source computes lengths as IEEE doubles in points         *)
(* (value * mm).  The model keeps a length exactly, as an integer number   *)
(* of micrometres (mm == 1000); line widths are hundredths of a point and  *)
(* grays are percentages.  Products with an irrational factor (tan 30,     *)
(* sqrt 3) are rounded down to the micrometre.  What exact arithmetic       *)
(* loses is the rounding of the doubles: when a loop variable built by      *)
(* repeated addition is, in exact arithmetic, EQUAL to the bound it is      *)
(* compared with, the double comparison is decided by the rounding error    *)
(* of the sums (140mm - 26 * 5mm is 10.000000000000002mm in the doubles).   *)
(* That error is the variable `fp`: the sign of (loop variable - bound) at  *)
(* such a tie, one sign for the x loops and one for the y loops, chosen     *)
(* when the run starts and any of -1, 0, 1.  Comparisons of unequal values  *)
(* are exact.                                                               *)
(***************************************************************************)
EXTENDS Integers, Sequences, FiniteSets, TLC

VARIABLES
    pc,             \* where the run stands
    config,         \* the configuration record (CONFIG_SCHEMA keys)
    fp,             \* rounding signs of the double sums: [x, y]
    rect,           \* the rectangle a generator is applied to: [x, y, width, height]
    sheet,          \* create_notebook_pdf: the loop index `sheet`
    sheets_needed,  \* create_notebook_pdf: `sheets_needed`
    gs,             \* the canvas' graphics state
    ops,            \* the canvas' log: every operation it received, in order
    ret,            \* create_notebook_pdf: the returned value, -1 before return
    prev            \* the log of an earlier run on the same configuration, or <<>>

vars == <<pc, config, fp, rect, sheet, sheets_needed, gs, ops, ret, prev>>

---------------------------------------------------------------------------
(* Bounds of the model *)

MaxPages == 3       \* config["pages"] ranges over 0..MaxPages
MaxArity == 4       \* config["pages_per_sheet"] ranges over 0..MaxArity
MaxSpacing == 2     \* largest spacing, in millimetres
MaxMargin == 5      \* largest margin, in millimetres
MaxDim == 6         \* largest rectangle side of a generator run, in millimetres
PageW == 4          \* short side of the model's page, in millimetres
PageH == 6          \* long side of the model's page, in millimetres
MaxIter == 28       \* iterations a loop is followed for before it is taken to spin

(* Program constants *)

mm == 1000          \* reportlab.lib.units.mm, in the model's length unit
TanNum == 56        \* math.tan(math.radians(30)) = 1/sqrt(3) ~ TanNum / TanDen
TanDen == 97

---------------------------------------------------------------------------
(* Doubles: comparisons of a loop variable with its bound.  d is the sign  *)
(* of the rounding error of the loop variable relative to the bound.       *)

FLe(a, b, d) == a < b \/ (a = b /\ d <= 0)      \* a <= b
FLt_until(a, b, d) == a # b      \* a faulty  a < b  that waits for a = b; C11 tells it apart
FLt(a, b, d) == a < b \/ (a = b /\ d < 0)       \* a <  b
FGt(a, b, d) == a > b \/ (a = b /\ d > 0)       \* a >  b

(* v * num / den, rounded down *)
MulDiv(v, num, den) == (v * num) \div den

---------------------------------------------------------------------------
(* The canvas *)

(* reportlab's graphics state at the start of every page *)
InitGS == [gray |-> 0, lw |-> 100, dash |-> FALSE, fill |-> 0]

(* c.setStrokeColor(parse_color(v)) / Color(g, g, g): the gray in percent *)
parse_color(gray_value) == gray_value
setStrokeColor(g, gray) == [g EXCEPT !.gray = gray]
setFillColor(g, gray) == [g EXCEPT !.fill = gray]
setLineWidth(g, w) == [g EXCEPT !.lw = w]
setDash(g, on) == [g EXCEPT !.dash = on]

(* One logged operation.  pts are the coordinates, arg the radius of a    *)
(* circle or the number of a label, st the graphics state in force.       *)
Op(kind, pts, arg, g) == [op |-> kind, pts |-> pts, arg |-> arg, st |-> g]

line(g, x1, y1, x2, y2) == Op("line", <<x1, y1, x2, y2>>, 0, g)
circleFill(g, x, y, r) == Op("dot", <<x, y>>, r, g)         \* fill=1, stroke=0
circleStroke(g, x, y, r) == Op("hole", <<x, y>>, r, g)      \* fill=0, stroke=1
drawPath(g, points) == Op("polygon", points, 0, g)          \* closed, stroke only
drawString(g, x, y, n) == Op("label", <<x, y>>, n, g)
showPage(g) == Op("showPage", <<>>, 0, g)
save(g) == Op("save", <<>>, 0, g)

(* The outcome of a piece of drawing code: the operations it emitted, the  *)
(* graphics state it left, and ok = FALSE when one of its loops was still  *)
(* running after MaxIter iterations.                                       *)
Res(o, g, ok) == [ops |-> o, gs |-> g, ok |-> ok]

(* r, then F on the graphics state r left, unless r is still looping *)
Then(r, F(_)) ==
    IF ~r.ok THEN r
    ELSE LET s == F(r.gs) IN Res(r.ops \o s.ops, s.gs, s.ok)


---------------------------------------------------------------------------
(* While loops.  Every loop of the generators moves its variable by a      *)
(* fixed step, so the variable is start + k * step after k iterations.     *)
(* Cond(k) is the loop's condition on that value.  Iter gives the number   *)
(* of times the body runs, and ok = FALSE when the condition still holds   *)
(* after MaxIter iterations (the loop is followed no further).             *)
Iter(Cond(_)) ==
    LET stops == {k \in 0..MaxIter : ~Cond(k)}
    IN  IF stops = {} THEN [n |-> MaxIter, ok |-> FALSE]
        ELSE [n |-> CHOOSE k \in stops : \A j \in stops : k <= j, ok |-> TRUE]

(* the concatenation of f[lo], ..., f[hi] *)
RECURSIVE Flatten(_, _, _)
Flatten(f, lo, hi) ==
    IF lo > hi THEN <<>>
    ELSE IF lo = hi THEN f[lo]
    ELSE LET mid == (lo + hi) \div 2
         IN  Flatten(f, lo, mid) \o Flatten(f, mid + 1, hi)

(* The body Body(k) (a Res, k = 0, 1, ...) run it.n times in graphics      *)
(* state g, which the bodies leave as it is; a body that is itself still   *)
(* looping is the last one to run.                                         *)
Loop(g, it, Body(_)) ==
    LET runs == [k \in 0..(it.n - 1) |-> Body(k)]
        bad == {k \in DOMAIN runs : ~runs[k].ok}
        last == IF bad = {} THEN it.n - 1
                ELSE CHOOSE k \in bad : \A j \in bad : k <= j
    IN  Res(Flatten([k \in 0..last |-> runs[k].ops], 0, last), g,
            it.ok /\ bad = {})

---------------------------------------------------------------------------
(* Pattern generators.  Each takes the graphics state g, the rectangle     *)
(* (x_start, y_start, width, height) in micrometres, the configuration and *)
(* the rounding signs f, and gives a Res.                                  *)

(* A faulty draw_lined that leaves the header's weight in force for the     *)
(* body lines; C16 tells it from the real one.                              *)
draw_lined_heavy(g, x_start, y_start, width, height, cfg, f) ==
    LET spacing == cfg.spacing * mm
        x1 == x_start + cfg.margin_left * mm
        x2 == x_start + width - cfg.margin_right * mm
        header_y == y_start + height - cfg.margin_top * mm
        g1 == setLineWidth(setStrokeColor(g, parse_color(cfg.line_gray)),
                           (cfg.line_weight * 3) \div 2)
        start_y == IF cfg.header_line = "yes" THEN header_y - spacing * 2
                   ELSE header_y - spacing
        y(k) == start_y - k * spacing
        body(h) == Loop(h, Iter(LAMBDA k : FGt(y(k), y_start + cfg.margin_bottom * mm, f.y)),
                        LAMBDA k : Res(<<line(h, x1, y(k), x2, y(k))>>, h, TRUE))
    IN  IF cfg.header_line = "yes"
        THEN Then(Res(<<line(g1, x1, header_y, x2, header_y)>>, g1, TRUE), body)
        ELSE body(g)

draw_lined(g, x_start, y_start, width, height, cfg, f) ==
    LET spacing == cfg.spacing * mm
        margin_top == cfg.margin_top * mm
        margin_bottom == cfg.margin_bottom * mm
        margin_left == cfg.margin_left * mm
        margin_right == cfg.margin_right * mm
        x1 == x_start + margin_left
        x2 == x_start + width - margin_right
        header_y == y_start + height - margin_top
        g1 == setLineWidth(setStrokeColor(g, parse_color(cfg.line_gray)),
                           (cfg.line_weight * 3) \div 2)
        g2 == setLineWidth(g1, cfg.line_weight)
        start_y == IF cfg.header_line = "yes" THEN header_y - spacing * 2
                   ELSE y_start + height - margin_top - spacing
        y(k) == start_y - k * spacing
        body(h) == Loop(h, Iter(LAMBDA k : FGt(y(k), y_start + margin_bottom, f.y)),
                        LAMBDA k : Res(<<line(h, x1, y(k), x2, y(k))>>, h, TRUE))
    IN  IF cfg.header_line = "yes"
        THEN Then(Res(<<line(g1, x1, header_y, x2, header_y)>>, g2, TRUE), body)
        ELSE body(g)

draw_dotted(g, x_start, y_start, width, height, cfg, f) ==
    LET spacing == cfg.spacing * mm
        margin_top == cfg.margin_top * mm
        margin_bottom == cfg.margin_bottom * mm
        margin_left == cfg.margin_left * mm
        margin_right == cfg.margin_right * mm
        dot_radius == (cfg.line_weight * 3) \div 5
        g1 == setFillColor(g, parse_color(cfg.line_gray))
        y(j) == y_start + height - margin_top - j * spacing
        x(k) == x_start + margin_left + k * spacing
        row(j) == Loop(g1, Iter(LAMBDA k : FLt(x(k), x_start + width - margin_right, f.x)),
                       LAMBDA k : Res(<<circleFill(g1, x(k), y(j), dot_radius)>>, g1, TRUE))
    IN  Loop(g1, Iter(LAMBDA j : FGt(y(j), y_start + margin_bottom, f.y)), row)

draw_squared(g, x_start, y_start, width, height, cfg, f) ==
    LET spacing == cfg.spacing * mm
        margin_top == cfg.margin_top * mm
        margin_bottom == cfg.margin_bottom * mm
        margin_left == cfg.margin_left * mm
        margin_right == cfg.margin_right * mm
        left == x_start + margin_left
        right == x_start + width - margin_right
        top == y_start + height - margin_top
        bottom == y_start + margin_bottom
        x(k) == left + k * spacing
        y(k) == bottom + k * spacing
    IN  Then(Loop(g, Iter(LAMBDA k : FLe(x(k), right, f.x)),
                  LAMBDA k : Res(<<line(g, x(k), bottom, x(k), top)>>, g, TRUE)),
             LAMBDA h : Loop(h, Iter(LAMBDA k : FLe(y(k), top, f.y)),
                             LAMBDA k : Res(<<line(h, left, y(k), right, y(k))>>, h, TRUE)))

draw_cornell(g, x_start, y_start, width, height, cfg, f) ==
    LET margin == cfg.margin_left * mm
        line_spacing == cfg.spacing * mm
        cue_column_width == MulDiv(width, 25, 100)
        summary_height == MulDiv(height, 15, 100)
        g1 == setLineWidth(setStrokeColor(g, parse_color(cfg.line_gray)),
                           cfg.line_weight * 2)
        g2 == setLineWidth(g1, cfg.line_weight)
        cue_x == x_start + cue_column_width
        y(k) == y_start + height - margin - line_spacing - k * line_spacing
    IN  Then(Res(<<line(g1, cue_x, y_start + summary_height,
                        cue_x, y_start + height - margin),
                   line(g1, x_start + margin, y_start + summary_height,
                        x_start + width - margin, y_start + summary_height)>>,
                 g2, TRUE),
             LAMBDA h : Loop(h, Iter(LAMBDA k : FGt(y(k), y_start + summary_height + margin, f.y)),
                             LAMBDA k : Res(<<line(h, cue_x + margin \div 2, y(k),
                                                   x_start + width - margin, y(k))>>,
                                            h, TRUE)))

(* draw_isometric.  run = (top - bottom) / math.tan(angle).  The second    *)
(* loop draws the family running up and to the left from the anchor x on   *)
(* the bottom edge, the third the family running up and to the right.      *)
draw_isometric(g, x_start, y_start, width, height, cfg, f) ==
    LET spacing == cfg.spacing * mm
        margin == cfg.margin_left * mm
        left == x_start + margin
        right == x_start + width - margin
        top == y_start + height - margin
        bottom == y_start + margin
        dx == spacing
        dy == MulDiv(spacing, TanNum, TanDen)
        run == MulDiv(top - bottom, TanDen, TanNum)
        g1 == setLineWidth(setStrokeColor(g, parse_color(cfg.line_gray)),
                           cfg.line_weight)
        yh(k) == bottom + k * (dy * 2)
        xl(k) == left + k * dx
        xr(k) == left - run + k * dx
        segment(h, x1, y1, x2, y2) ==
            Res(IF y1 >= bottom /\ y2 <= top THEN <<line(h, x1, y1, x2, y2)>> ELSE <<>>,
                h, TRUE)
        up_left(h, x) ==
            LET clip2 == x - run < left
                clip1 == x > right
            IN  segment(h, IF clip1 THEN right ELSE x,
                           IF clip1 THEN bottom + MulDiv(x - right, TanNum, TanDen)
                           ELSE bottom,
                           IF clip2 THEN left ELSE x - run,
                           IF clip2 THEN bottom + MulDiv(x - left, TanNum, TanDen)
                           ELSE top)
        up_right(h, x) ==
            LET clip1 == x < left
                clip2 == x + run > right
            IN  segment(h, IF clip1 THEN left ELSE x,
                           IF clip1 THEN bottom + MulDiv(left - x, TanNum, TanDen)
                           ELSE bottom,
                           IF clip2 THEN right ELSE x + run,
                           IF clip2 THEN bottom + MulDiv(right - x, TanNum, TanDen)
                           ELSE top)
    IN  Then(Then(Loop(g1, Iter(LAMBDA k : FLe(yh(k), top, f.y)),
                       LAMBDA k : Res(<<line(g1, left, yh(k), right, yh(k))>>, g1, TRUE)),
                  LAMBDA h : Loop(h, Iter(LAMBDA k : FLe(xl(k), right + run, f.x)),
                                  LAMBDA k : up_left(h, xl(k)))),
             LAMBDA h : Loop(h, Iter(LAMBDA k : FLe(xr(k), right, f.x)),
                             LAMBDA k : up_right(h, xr(k))))

(* draw_hexagon: six vertices at 60 * i - 30 degrees, closed, stroked.     *)
(* cos 30 = sqrt(3) / 2 ~ TanDen / (2 * TanNum), sin 30 = 1 / 2.           *)
draw_hexagon(g, cx, cy, size) ==
    LET c == MulDiv(size, TanDen, 2 * TanNum)
        h == size \div 2
    IN  drawPath(g, <<cx + c, cy - h,  cx + c, cy + h,  cx, cy + size,
                      cx - c, cy + h,  cx - c, cy - h,  cx, cy - size>>)

(* draw_hexagonal.  math.sqrt(3) ~ TanDen / TanNum; row j is the loop's    *)
(* variable `row`.                                                         *)
draw_hexagonal(g, x_start, y_start, width, height, cfg, f) ==
    LET size == cfg.spacing * mm
        margin == cfg.margin_left * mm
        hex_width == size * 2
        hex_height == MulDiv(size, TanDen, TanNum)
        g1 == setLineWidth(setStrokeColor(g, parse_color(cfg.line_gray)),
                           cfg.line_weight)
        y(j) == y_start + height - margin - size - j * (hex_height \div 2)
        offset(j) == IF j % 2 # 0 THEN (hex_width * 75) \div 100 ELSE 0
        x(j, k) == x_start + margin + size + offset(j) + k * ((hex_width * 3) \div 2)
        row(j) == Loop(g1, Iter(LAMBDA k : FLt(x(j, k), x_start + width - margin - size, f.x)),
                       LAMBDA k : Res(<<draw_hexagon(g1, x(j, k), y(j), size)>>, g1, TRUE))
    IN  Loop(g1, Iter(LAMBDA j : FGt(y(j), y_start + margin + size, f.y)), row)

draw_blank(g, x_start, y_start, width, height, cfg, f) == Res(<<>>, g, TRUE)

(* draw_pattern: pattern_funcs.get(pattern, draw_squared) *)
draw_pattern(g, x_start, y_start, width, height, cfg, f) ==
    LET g1 == setLineWidth(setStrokeColor(g, parse_color(cfg.line_gray)),
                           cfg.line_weight)
        pattern == cfg.pattern
    IN  CASE pattern = "lined" -> draw_lined(g1, x_start, y_start, width, height, cfg, f)
          [] pattern = "dotted" -> draw_dotted(g1, x_start, y_start, width, height, cfg, f)
          [] pattern = "squared" -> draw_squared(g1, x_start, y_start, width, height, cfg, f)
          [] pattern = "cornell" -> draw_cornell(g1, x_start, y_start, width, height, cfg, f)
          [] pattern = "isometric" -> draw_isometric(g1, x_start, y_start, width, height, cfg, f)
          [] pattern = "hexagonal" -> draw_hexagonal(g1, x_start, y_start, width, height, cfg, f)
          [] pattern = "blank" -> draw_blank(g1, x_start, y_start, width, height, cfg, f)
          [] OTHER -> draw_squared(g1, x_start, y_start, width, height, cfg, f)

---------------------------------------------------------------------------
(* Sheet decorations and imposition *)

(* A faulty draw_page_number, the sides of odd and even numbers swapped;   *)
(* C6 tells it from the real one.                                          *)
draw_page_number_swapped(g, page_width, page_height, page_num, cfg) ==
    LET g1 == setFillColor(g, 50)
        margin == cfg.margin_bottom * mm
        x == IF page_num % 2 = 1 THEN cfg.margin_left * mm
             ELSE page_width - cfg.margin_right * mm
    IN  Res(<<drawString(g1, x, margin \div 2, page_num)>>, g1, TRUE)

draw_page_number(g, page_width, page_height, page_num, cfg) ==
    LET g1 == setFillColor(g, 50)
        margin == cfg.margin_bottom * mm
        x == IF page_num % 2 = 0 THEN cfg.margin_left * mm
             ELSE page_width - cfg.margin_right * mm
    IN  Res(<<drawString(g1, x, margin \div 2, page_num)>>, g1, TRUE)

draw_punch_holes(g, page_width, page_height, hole_type, margin) ==
    LET g1 == setLineWidth(setStrokeColor(g, 80), 50)
        hole_radius == 3 * mm
        x == margin \div 2
        center_y == page_height \div 2
        positions ==
            IF hole_type = "2-hole" THEN <<center_y - 40 * mm, center_y + 40 * mm>>
            ELSE <<MulDiv(page_height, 15, 100), MulDiv(page_height, 38, 100),
                   MulDiv(page_height, 62, 100), MulDiv(page_height, 85, 100)>>
    IN  IF hole_type = "none" THEN Res(<<>>, g, TRUE)
        ELSE IF hole_type \notin {"2-hole", "4-hole"} THEN Res(<<>>, g1, TRUE)
        ELSE Res([i \in 1..Len(positions) |->
                     circleStroke(g1, x, positions[i], hole_radius)], g1, TRUE)

(* the dashed fold guides of arity 2 (vertical) and arity 4 (both) *)
fold_guides(g, sheet_width, sheet_height, both) ==
    LET g1 == setDash(setLineWidth(setStrokeColor(g, 90), 20), TRUE)
        half_width == sheet_width \div 2
        half_height == sheet_height \div 2
    IN  Res(<<line(g1, half_width, 0, half_width, sheet_height)>>
            \o (IF both THEN <<line(g1, 0, half_height, sheet_width, half_height)>>
                ELSE <<>>),
            setDash(g1, FALSE), TRUE)

(* the page number of one logical page, when enabled *)
numbered(g, page_width, page_height, page_num, cfg) ==
    IF cfg.page_numbers = "yes" /\ page_num > 0
    THEN draw_page_number(g, page_width, page_height, page_num, cfg)
    ELSE Res(<<>>, g, TRUE)

(* create_imposed_page, pages_per_sheet == 1 *)
impose_one(g, sheet_width, sheet_height, start_page, cfg, f) ==
    Then(Then(draw_pattern(g, 0, 0, sheet_width, sheet_height, cfg, f),
              LAMBDA h : numbered(h, sheet_width, sheet_height, start_page, cfg)),
         LAMBDA h : IF cfg.punch_holes # "none"
                    THEN draw_punch_holes(h, sheet_width, sheet_height,
                                          cfg.punch_holes, cfg.margin_left * mm)
                    ELSE Res(<<>>, h, TRUE))

(* create_imposed_page, pages_per_sheet == 2 *)
impose_two(g, sheet_width, sheet_height, start_page, cfg, f) ==
    LET half_width == sheet_width \div 2
    IN  Then(Then(Then(Then(
             draw_pattern(g, 0, 0, half_width, sheet_height, cfg, f),
             LAMBDA h : numbered(h, half_width, sheet_height, start_page, cfg)),
             LAMBDA h : draw_pattern(h, half_width, 0, half_width, sheet_height, cfg, f)),
             LAMBDA h : numbered(h, half_width, sheet_height, start_page + 1, cfg)),
             LAMBDA h : fold_guides(h, sheet_width, sheet_height, FALSE))

(* A faulty 4-up branch that numbers its first page as the 2-up branch     *)
(* does; C8 tells it from the real one.                                    *)
impose_four_numbered(g, sheet_width, sheet_height, start_page, cfg, f) ==
    LET half_width == sheet_width \div 2
        half_height == sheet_height \div 2
    IN  Then(Then(Then(Then(Then(
             draw_pattern(g, 0, half_height, half_width, half_height, cfg, f),
             LAMBDA h : numbered(h, half_width, half_height, start_page, cfg)),
             LAMBDA h : draw_pattern(h, half_width, half_height, half_width, half_height, cfg, f)),
             LAMBDA h : draw_pattern(h, 0, 0, half_width, half_height, cfg, f)),
             LAMBDA h : draw_pattern(h, half_width, 0, half_width, half_height, cfg, f)),
             LAMBDA h : fold_guides(h, sheet_width, sheet_height, TRUE))

(* create_imposed_page, pages_per_sheet == 4 *)
impose_four(g, sheet_width, sheet_height, start_page, cfg, f) ==
    LET half_width == sheet_width \div 2
        half_height == sheet_height \div 2
    IN  Then(Then(Then(Then(
             draw_pattern(g, 0, half_height, half_width, half_height, cfg, f),
             LAMBDA h : draw_pattern(h, half_width, half_height, half_width, half_height, cfg, f)),
             LAMBDA h : draw_pattern(h, 0, 0, half_width, half_height, cfg, f)),
             LAMBDA h : draw_pattern(h, half_width, 0, half_width, half_height, cfg, f)),
             LAMBDA h : fold_guides(h, sheet_width, sheet_height, TRUE))

(* any other arity: no branch is taken and the call returns *)
create_imposed_page(g, sheet_width, sheet_height, pages_per_sheet, start_page, cfg, f) ==
    CASE pages_per_sheet = 1 -> impose_one(g, sheet_width, sheet_height, start_page, cfg, f)
      [] pages_per_sheet = 2 -> impose_two(g, sheet_width, sheet_height, start_page, cfg, f)
      [] pages_per_sheet = 4 -> impose_four(g, sheet_width, sheet_height, start_page, cfg, f)
      [] OTHER -> Res(<<>>, g, TRUE)

---------------------------------------------------------------------------
(* The document assembler *)

(* PAGE_SIZES.get(choice.lower(), A5), then landscape(size) or portrait(size) *)
get_pagesize(choice, orientation) ==
    IF orientation = "landscape" THEN <<PageH * mm, PageW * mm>>
    ELSE <<PageW * mm, PageH * mm>>

(* A faulty sheet count, rounded down; C2 tells it from the real one.      *)
floor_div(total_pages, pages_per_sheet) == total_pages \div pages_per_sheet

(* math.ceil(total_pages / pages_per_sheet), pages_per_sheet > 0 *)
ceil_div(total_pages, pages_per_sheet) == -((-total_pages) \div pages_per_sheet)

page_width == get_pagesize(config.page_size, config.orientation)[1]
page_height == get_pagesize(config.page_size, config.orientation)[2]

Patterns == {"lined", "dotted", "squared", "cornell", "isometric", "hexagonal", "blank"}

(* the configurations create_notebook_pdf is run on *)
Configs ==
    { c \in [pattern : Patterns \cup {"stars"},
             spacing : {-1, 0, 1, MaxSpacing},
             margin_top : {1, MaxMargin}, margin_bottom : {1, MaxMargin},
             margin_left : {0, 1}, margin_right : {1},
             line_gray : {75}, line_weight : {30},
             pages : 0..MaxPages, pages_per_sheet : 0..MaxArity,
             header_line : {"no", "yes"}, page_numbers : {"no", "yes"},
             punch_holes : {"none", "2-hole", "4-hole"},
             page_size : {"a5"}, orientation : {"portrait"}] :
        /\ c.margin_top = c.margin_bottom
        /\ c.header_line = "yes" => c.pattern = "lined" }

Init ==
    /\ pc = "start"
    /\ config \in Configs
    /\ fp = [x |-> 0, y |-> 0]
    /\ rect = [x |-> 0, y |-> 0, width |-> page_width, height |-> page_height]
    /\ sheet = 0
    /\ sheets_needed = 0
    /\ gs = InitGS
    /\ ops = <<>>
    /\ ret = -1
    /\ prev = <<>>

(* create_notebook_pdf up to the for loop: the canvas, the sheet count *)
Begin ==
    /\ pc = "start"
    /\ config.pages_per_sheet # 0
    /\ sheets_needed' = ceil_div(config.pages, config.pages_per_sheet)
    /\ sheet' = 0
    /\ pc' = "loop"
    /\ UNCHANGED <<config, fp, rect, prev, gs, ops, ret>>

(* total_pages / pages_per_sheet with pages_per_sheet = 0: ZeroDivisionError *)
DivideByZero ==
    /\ pc = "start"
    /\ config.pages_per_sheet = 0
    /\ pc' = "error"
    /\ UNCHANGED <<config, fp, rect, prev, sheet, sheets_needed, gs, ops, ret>>

(* A faulty loop body whose start_page is one too low; C1 tells it from    *)
(* the real one.                                                           *)
Impose_from_zero ==
    /\ pc = "loop"
    /\ sheet < sheets_needed
    /\ LET start_page == sheet * config.pages_per_sheet
           r == create_imposed_page(gs, page_width, page_height,
                                    config.pages_per_sheet, start_page, config, fp)
       IN  /\ ops' = ops \o r.ops
           /\ gs' = r.gs
           /\ pc' = IF r.ok THEN "page" ELSE "spinning"
    /\ UNCHANGED <<config, fp, rect, prev, sheet, sheets_needed, ret>>

(* one iteration of the for loop, up to the call's return *)
Impose ==
    /\ pc = "loop"
    /\ sheet < sheets_needed
    /\ LET start_page == sheet * config.pages_per_sheet + 1
           r == create_imposed_page(gs, page_width, page_height,
                                    config.pages_per_sheet, start_page, config, fp)
       IN  /\ ops' = ops \o r.ops
           /\ gs' = r.gs
           /\ pc' = IF r.ok THEN "page" ELSE "spinning"
    /\ UNCHANGED <<config, fp, rect, prev, sheet, sheets_needed, ret>>

(* A faulty page break that leaves the graphics state as it is; C15 tells  *)
(* it from the real one.                                                   *)
ShowPage_keeps_state ==
    /\ pc = "page"
    /\ ops' = Append(ops, showPage(gs))
    /\ gs' = gs
    /\ sheet' = sheet + 1
    /\ pc' = "loop"
    /\ UNCHANGED <<config, fp, rect, prev, sheets_needed, ret>>

(* c.showPage(), and the loop index moves on *)
ShowPage ==
    /\ pc = "page"
    /\ ops' = Append(ops, showPage(gs))
    /\ gs' = InitGS
    /\ sheet' = sheet + 1
    /\ pc' = "loop"
    /\ UNCHANGED <<config, fp, rect, prev, sheets_needed, ret>>

(* the loop is over: c.save(), return sheets_needed *)
Save ==
    /\ pc = "loop"
    /\ sheet >= sheets_needed
    /\ ops' = Append(ops, save(gs))
    /\ ret' = sheets_needed
    /\ pc' = "done"
    /\ UNCHANGED <<config, fp, rect, prev, sheet, sheets_needed, gs>>

(* a while loop of a generator that never ends *)
Spin ==
    /\ pc = "spinning"
    /\ UNCHANGED vars

Next == Begin \/ DivideByZero \/ Impose \/ ShowPage \/ Save \/ Spin

Spec == Init /\ [][Next]_vars

---------------------------------------------------------------------------
(* The generators on their own: one generator applied to one rectangle.    *)

RectOff == 2        \* the rectangles start at (0, 0) or at (RectOff, RectOff + 1) mm

Rects ==
    { r \in [x : {0, RectOff * mm}, y : {0, (RectOff + 1) * mm},
             width : {1 * mm, 2 * mm, MaxDim * mm},
             height : {1 * mm, 2 * mm, MaxDim * mm}] :
        (r.x = 0) = (r.y = 0) }

(* The configurations a generator is run on, spacing > 0.  Fields a        *)
(* generator does not read are left at one value.                          *)
GeomConfigs ==
    { c \in [pattern : Patterns,
             spacing : 1..MaxSpacing,
             margin_top : {0, 1, MaxMargin}, margin_bottom : {0, 1, MaxMargin},
             margin_left : {0, 1, MaxMargin}, margin_right : {0, 1, MaxMargin},
             line_gray : {75}, line_weight : {30},
             pages : {1}, pages_per_sheet : {1},
             header_line : {"no", "yes"}, page_numbers : {"no"},
             punch_holes : {"none"},
             page_size : {"a5"}, orientation : {"portrait"}] :
        /\ c.header_line = "yes" => c.pattern = "lined"
        /\ c.pattern \in {"cornell", "isometric", "hexagonal", "blank"}
              => c.margin_top = 0 /\ c.margin_bottom = 0 /\ c.margin_right = 0
        /\ c.pattern = "blank" => c.margin_left = 0 /\ c.spacing = 1 }

Roundings == [x : {-1, 0, 1}, y : {-1, 0, 1}]

InitGeom ==
    /\ pc = "rect"
    /\ config \in GeomConfigs
    /\ fp \in {f \in Roundings : config.pattern \in {"lined", "cornell", "blank"} => f.x = 0}
    /\ rect \in Rects
    /\ sheet = 0
    /\ sheets_needed = 0
    /\ gs = InitGS
    /\ ops = <<>>
    /\ ret = -1
    /\ prev = <<>>

(* the generator's outcome r becomes the canvas' log *)
Generated(kind, r) ==
    /\ pc = "rect"
    /\ config.pattern = kind
    /\ ops' = r.ops
    /\ gs' = r.gs
    /\ pc' = IF r.ok THEN "drawn" ELSE "spinning"
    /\ UNCHANGED <<config, fp, rect, prev, sheet, sheets_needed, ret>>

GenLined ==
    Generated("lined", draw_lined(gs, rect.x, rect.y, rect.width, rect.height, config, fp))
GenDotted ==
    Generated("dotted", draw_dotted(gs, rect.x, rect.y, rect.width, rect.height, config, fp))
GenSquared ==
    Generated("squared", draw_squared(gs, rect.x, rect.y, rect.width, rect.height, config, fp))
GenCornell ==
    Generated("cornell", draw_cornell(gs, rect.x, rect.y, rect.width, rect.height, config, fp))
GenIsometric ==
    Generated("isometric", draw_isometric(gs, rect.x, rect.y, rect.width, rect.height, config, fp))
GenHexagonal ==
    Generated("hexagonal", draw_hexagonal(gs, rect.x, rect.y, rect.width, rect.height, config, fp))
GenBlank ==
    Generated("blank", draw_blank(gs, rect.x, rect.y, rect.width, rect.height, config, fp))

NextGeom ==
    GenLined \/ GenDotted \/ GenSquared \/ GenCornell \/ GenIsometric
        \/ GenHexagonal \/ GenBlank

SpecGeom == InitGeom /\ [][NextGeom]_vars

---------------------------------------------------------------------------
(* Reading the canvas' log *)

IsDrawing(o) == o.op \in {"line", "dot", "hole", "polygon", "label"}

(* positions of the page breaks, and of the i-th one (i = 0, 1, ...) *)
Breaks == {k \in DOMAIN ops : ops[k].op = "showPage"}
NthBreak(i) == CHOOSE k \in Breaks : Cardinality({j \in Breaks : j < k}) = i

(* what the log holds for sheet i, whose page break has been emitted *)
SheetSeg(i) ==
    SubSeq(ops, IF i = 0 THEN 1 ELSE NthBreak(i - 1) + 1, NthBreak(i) - 1)

(* what the log holds after the last page break *)
LogTail ==
    SubSeq(ops, IF Breaks = {} THEN 1 ELSE NthBreak(Cardinality(Breaks) - 1) + 1,
           Len(ops))

(* the elements of a sequence that satisfy Keep, in order *)
RECURSIVE Filter(_, _, _, _)
Filter(q, Keep(_), lo, hi) ==
    IF lo > hi THEN <<>>
    ELSE IF lo = hi THEN (IF Keep(q[lo]) THEN <<q[lo]>> ELSE <<>>)
    ELSE LET mid == (lo + hi) \div 2
         IN  Filter(q, Keep, lo, mid) \o Filter(q, Keep, mid + 1, hi)

Only(q, Keep(_)) == Filter(q, Keep, 1, Len(q))

ValidRun == config.pages >= 1 /\ config.pages_per_sheet \in {1, 2, 4}

(* sheet i as the Sheet Imposer draws it on a fresh page *)
Imposed(i) ==
    create_imposed_page(InitGS, page_width, page_height, config.pages_per_sheet,
                        i * config.pages_per_sheet + 1, config, fp)

---------------------------------------------------------------------------
(* C1: for pages >= 1 and arity 1, 2 or 4 the sheets are processed in       *)
(* increasing order, sheet i imposed with start_page = i * arity + 1; the   *)
(* log holds, for every processed sheet in turn, all of that sheet's        *)
(* drawing operations and then its one page break, before anything of the   *)
(* next sheet; save is logged once, last, when the run is done, after       *)
(* sheets_needed page breaks.                                               *)
C1_SheetOrder ==
    ValidRun =>
        LET nb == Cardinality(Breaks)
            saves == {k \in DOMAIN ops : ops[k].op = "save"}
        IN  /\ nb = sheet
            /\ \A i \in 0..(nb - 1) : SheetSeg(i) = Imposed(i).ops
            /\ pc = "page" => LogTail = Imposed(nb).ops
            /\ pc = "loop" => LogTail = <<>>
            /\ saves \subseteq {Len(ops)}
            /\ (saves # {}) = (pc = "done")
            /\ pc = "done" => nb = sheets_needed /\ LogTail = <<save(InitGS)>>

C1_Witness ==
    /\ ValidRun /\ pc = "done" /\ config.pages_per_sheet = 2 /\ sheets_needed = 2
    /\ config.page_numbers = "yes" /\ config.pattern = "lined"
    /\ Len(SheetSeg(0)) > 3 /\ Len(SheetSeg(1)) > 3

(* C2: for pages >= 1 and arity 1, 2 or 4 the run emits and returns         *)
(* exactly ceil(pages / arity) sheets; 32 pages at 4 per sheet are 8        *)
(* sheets, 33 pages are 9.                                                  *)
C2_SheetCount ==
    /\ ValidRun /\ pc = "done" =>
          /\ ret = Cardinality(Breaks)
          /\ ret * config.pages_per_sheet >= config.pages
          /\ (ret - 1) * config.pages_per_sheet < config.pages
    /\ ceil_div(32, 4) = 8
    /\ ceil_div(33, 4) = 9

C2_Witness ==
    /\ pc = "done" /\ config.pages = 3 /\ config.pages_per_sheet = 2 /\ ret = 2
    /\ Cardinality(Breaks) = 2

(* C3: an arity other than 1, 2, 4 ends in an error before any drawing      *)
(* operation or page break reaches the canvas.                              *)
C3_InvalidArityRejected ==
    config.spacing > 0 /\ config.pages >= 1 /\ config.pages_per_sheet \notin {1, 2, 4} =>
        /\ pc # "done"
        /\ \A k \in DOMAIN ops : ~IsDrawing(ops[k]) /\ ops[k].op # "showPage"

(* C4: with pages < 1 the run fails: no sheet, no save, nothing returned.   *)
C4_NoPagesRejected ==
    config.spacing > 0 /\ config.pages_per_sheet \in {1, 2, 4} /\ config.pages < 1 =>
        /\ pc # "done"
        /\ ret = -1
        /\ \A k \in DOMAIN ops : ops[k].op \notin {"showPage", "save"}

(* C5: with spacing <= 0 generation is rejected at once: no generator loop  *)
(* is entered, nothing is drawn, and no loop runs without end.              *)
C5_NoSpacingRejected ==
    config.spacing <= 0 =>
        /\ pc # "spinning"
        /\ \A k \in DOMAIN ops : ~IsDrawing(ops[k])

(* an operation without the graphics state it was drawn with *)
Strip(o) == [op |-> o.op, pts |-> o.pts, arg |-> o.arg]
Stripped(q) == [k \in DOMAIN q |-> Strip(q[k])]

IsLabel(o) == o.op = "label"
IsHole(o) == o.op = "hole"
IsGuide(o) == o.op = "line" /\ o.st.dash
IsPattern(o) == ~IsLabel(o) /\ ~IsHole(o) /\ ~IsGuide(o)

(* the pattern as the Pattern Renderer draws it on rectangle r *)
PatternOn(r) == Stripped(draw_pattern(InitGS, r.x, r.y, r.width, r.height, config, fp).ops)

(* C6: arity 1 with page numbers: every sheet carries exactly one label,    *)
(* its text the sheet's start_page, at x = margin_left when that number is  *)
(* even and x = sheet_width - margin_right when it is odd, at height        *)
(* margin_bottom / 2.                                                       *)
C6_PageNumberParity ==
    config.pages >= 1 /\ config.pages_per_sheet = 1 /\ config.page_numbers = "yes" =>
        \A i \in 0..(Cardinality(Breaks) - 1) :
            LET labels == Only(SheetSeg(i), IsLabel)
                start_page == i + 1
            IN  /\ Len(labels) = 1
                /\ labels[1].arg = start_page
                /\ labels[1].pts =
                      << IF start_page % 2 = 0 THEN config.margin_left * mm
                         ELSE page_width - config.margin_right * mm,
                         (config.margin_bottom * mm) \div 2 >>

C6_Witness ==
    /\ pc = "done" /\ config.pages_per_sheet = 1 /\ config.page_numbers = "yes"
    /\ config.pages = 3 /\ Cardinality(Breaks) = 3
    /\ config.margin_left = 0 /\ config.pattern = "dotted" /\ config.spacing > 0

(* C7, in parts, for sheet i of an arity-2 document.                        *)
(* The two logical pages [0, w/2] and [w/2, w]: *)
LeftPage == [x |-> 0, y |-> 0, width |-> page_width \div 2, height |-> page_height]
RightPage == [x |-> page_width \div 2, y |-> 0,
              width |-> page_width \div 2, height |-> page_height]

(* each page gets its own pattern instance on its own rectangle *)
C7_Patterns(i) ==
    Stripped(Only(SheetSeg(i), IsPattern)) = PatternOn(LeftPage) \o PatternOn(RightPage)

(* exactly one dashed fold guide, on the vertical midline *)
C7_FoldGuide(i) ==
    Stripped(Only(SheetSeg(i), IsGuide))
        = << Strip(line(InitGS, page_width \div 2, 0, page_width \div 2, page_height)) >>

(* with page numbers, start_page on the left page and start_page + 1 on     *)
(* the right page, each label's x inside its own page's rectangle           *)
C7_Numbers(i) ==
    LET labels == Only(SheetSeg(i), IsLabel)
        start_page == i * 2 + 1
    IN  IF config.page_numbers # "yes" THEN labels = <<>>
        ELSE /\ Len(labels) = 2
             /\ labels[1].arg = start_page
             /\ labels[2].arg = start_page + 1
             /\ labels[1].pts[1] >= LeftPage.x
             /\ labels[1].pts[1] <= LeftPage.x + LeftPage.width
             /\ labels[2].pts[1] >= RightPage.x
             /\ labels[2].pts[1] <= RightPage.x + RightPage.width

C7_PatternsHold ==
    config.pages >= 1 /\ config.pages_per_sheet = 2 =>
        \A i \in 0..(Cardinality(Breaks) - 1) : C7_Patterns(i) /\ C7_FoldGuide(i)

(* C7: arity 2: two equal-width pages, each with its own pattern and, when  *)
(* enabled, its own page number inside its own rectangle; one dashed fold   *)
(* guide on the vertical midline.                                           *)
C7_TwoUp ==
    config.spacing > 0 /\ config.pages >= 1 /\ config.pages_per_sheet = 2 =>
        \A i \in 0..(Cardinality(Breaks) - 1) :
            C7_Patterns(i) /\ C7_FoldGuide(i) /\ C7_Numbers(i)

(* C8: arity 4.  The four quadrants of the 2 x 2 split: *)
Quadrants ==
    LET hw == page_width \div 2
        hh == page_height \div 2
    IN  << [x |-> 0, y |-> hh, width |-> hw, height |-> hh],
           [x |-> hw, y |-> hh, width |-> hw, height |-> hh],
           [x |-> 0, y |-> 0, width |-> hw, height |-> hh],
           [x |-> hw, y |-> 0, width |-> hw, height |-> hh] >>

(* two rectangles share more than a boundary *)
Overlap(a, b) ==
    /\ a.x < b.x + b.width /\ b.x < a.x + a.width
    /\ a.y < b.y + b.height /\ b.y < a.y + a.height

(* the quadrants lie in the sheet, no two overlap, and their areas add up   *)
(* to the sheet's: together they cover it                                   *)
QuadrantsTile ==
    /\ \A i \in 1..4 :
          /\ Quadrants[i].x >= 0 /\ Quadrants[i].y >= 0
          /\ Quadrants[i].x + Quadrants[i].width <= page_width
          /\ Quadrants[i].y + Quadrants[i].height <= page_height
    /\ \A i, j \in 1..4 : i # j => ~Overlap(Quadrants[i], Quadrants[j])
    /\ (Quadrants[1].width \div 100) * (Quadrants[1].height \div 100) * 4
          = (page_width \div 100) * (page_height \div 100)

(* C8: arity 4: every sheet receives exactly four pattern instances, one on *)
(* each quadrant of the 2 x 2 split, exactly two dashed fold guides (the    *)
(* vertical and the horizontal midline), and no page number and no punch    *)
(* hole guide, whatever page_numbers and punch_holes are.                   *)
C8_FourUp ==
    config.pages >= 1 /\ config.pages_per_sheet = 4 =>
        \A i \in 0..(Cardinality(Breaks) - 1) :
            LET seg == SheetSeg(i)
                guides == Stripped(Only(seg, IsGuide))
            IN  /\ Only(seg, IsLabel) = <<>>
                /\ Only(seg, IsHole) = <<>>
                /\ Len(guides) = 2
                /\ {guides[1], guides[2]}
                      = { Strip(line(InitGS, page_width \div 2, 0,
                                     page_width \div 2, page_height)),
                          Strip(line(InitGS, 0, page_height \div 2,
                                     page_width, page_height \div 2)) }
                /\ \E q \in Permutations(1..4) :
                      Stripped(Only(seg, IsPattern))
                          = PatternOn(Quadrants[q[1]]) \o PatternOn(Quadrants[q[2]])
                              \o PatternOn(Quadrants[q[3]]) \o PatternOn(Quadrants[q[4]])
                /\ QuadrantsTile

C8_Witness ==
    /\ pc = "done" /\ config.pages_per_sheet = 4 /\ config.pages = 3
    /\ config.page_numbers = "yes" /\ config.punch_holes = "4-hole"
    /\ config.pattern = "squared" /\ config.spacing > 0 /\ config.margin_top = 1
    /\ Cardinality(Breaks) = 1
    /\ Len(Only(SheetSeg(0), IsPattern)) >= 8

---------------------------------------------------------------------------
(* Claims about the generators, under SpecGeom *)

(* C9: draw_squared on a rectangle with drawable width W >= 0 and drawable  *)
(* height H >= 0 and spacing s > 0 emits floor(W / s) + 1 vertical lines,   *)
(* at left, left + s, ..., the one that falls exactly on the right margin   *)
(* included, and then floor(H / s) + 1 horizontal lines, at bottom,         *)
(* bottom + s, ..., the one exactly on the top margin included; every       *)
(* vertical line comes before every horizontal one.                         *)
C9_SquaredCount ==
    LET s == config.spacing * mm
        left == rect.x + config.margin_left * mm
        right == rect.x + rect.width - config.margin_right * mm
        top == rect.y + rect.height - config.margin_top * mm
        bottom == rect.y + config.margin_bottom * mm
        W == right - left
        H == top - bottom
        nv == W \div s + 1
        nh == H \div s + 1
    IN  pc = "drawn" /\ config.pattern = "squared" /\ W >= 0 /\ H >= 0 =>
            /\ Len(ops) = nv + nh
            /\ \A k \in 1..nv :
                  k <= Len(ops) =>
                      ops[k].op = "line"
                          /\ ops[k].pts = <<left + (k - 1) * s, bottom,
                                            left + (k - 1) * s, top>>
            /\ \A k \in 1..nh :
                  nv + k <= Len(ops) =>
                      ops[nv + k].op = "line"
                          /\ ops[nv + k].pts = <<left, bottom + (k - 1) * s,
                                                 right, bottom + (k - 1) * s>>

(* the x and the y coordinates of a logged operation *)
XsOf(o) == {o.pts[k] : k \in {j \in DOMAIN o.pts : j % 2 = 1}}
YsOf(o) == {o.pts[k] : k \in {j \in DOMAIN o.pts : j % 2 = 0}}

(* C10: for every rectangle, spacing > 0 and non-negative margins, margins  *)
(* larger than the rectangle included, every coordinate of every line end,  *)
(* circle centre and polygon vertex emitted by the lined, dotted, squared,  *)
(* isometric and hexagonal generators lies within                           *)
(* [x, x + width] x [y, y + height].                                        *)
C10_Containment ==
    pc = "drawn"
        /\ config.pattern \in {"lined", "dotted", "squared", "isometric", "hexagonal"} =>
            \A k \in DOMAIN ops :
                /\ \A px \in XsOf(ops[k]) : rect.x <= px /\ px <= rect.x + rect.width
                /\ \A py \in YsOf(ops[k]) : rect.y <= py /\ py <= rect.y + rect.height

---------------------------------------------------------------------------
(* create_notebook_pdf as a running program: a call that can take a step    *)
(* of its code takes it.  Spin, a loop that never ends, leads nowhere and   *)
(* is under no such obligation.                                             *)
(* A step of Begin, Impose, ShowPage or Save, told by the position it      *)
(* leaves and the one it reaches: these four are the steps that move pc     *)
(* on from start, loop or page, and each can be taken whenever pc is        *)
(* there (Begin unless pages_per_sheet is 0).                               *)
Proceed ==
    /\ \/ pc = "start" /\ config.pages_per_sheet # 0
       \/ pc \in {"loop", "page"}
    /\ pc' \in {"loop", "page", "spinning", "done"} \ {pc}

(* Proceed is those four steps and no other *)
ProceedIsTheCode == [][Proceed <=> (Begin \/ Impose \/ ShowPage \/ Save)]_vars

SpecLive == Spec /\ WF_pc(Proceed)

(* the rectangle (width, height) leaves no drawable area within the margins *)
NoRoom(width, height) ==
    \/ width <= (config.margin_left + config.margin_right) * mm
    \/ height <= (config.margin_top + config.margin_bottom) * mm

(* the rectangle of one logical page, by arity *)
LogicalPage ==
    [width |-> IF config.pages_per_sheet = 1 THEN page_width ELSE page_width \div 2,
     height |-> IF config.pages_per_sheet = 4 THEN page_height \div 2 ELSE page_height]

Degenerate ==
    ValidRun /\ config.spacing > 0 /\ NoRoom(LogicalPage.width, LogicalPage.height)

(* the run is over: sheets_needed page breaks, then the one save *)
Completed ==
    /\ pc = "done"
    /\ ret = sheets_needed
    /\ Cardinality(Breaks) = sheets_needed
    /\ ops[Len(ops)].op = "save"

(* the configuration with its margins set to zero *)
Unmargined ==
    [config EXCEPT !.margin_top = 0, !.margin_bottom = 0,
                   !.margin_left = 0, !.margin_right = 0]

(* no more pattern operations on sheet i than its logical pages hold        *)
(* without margins                                                          *)
Truncated(i) ==
    Len(Only(SheetSeg(i), IsPattern))
        <= config.pages_per_sheet
             * Len(draw_pattern(InitGS, 0, 0, LogicalPage.width, LogicalPage.height,
                                Unmargined, fp).ops)

(* under SpecGeom: with spacing > 0 every generator returns, on every       *)
(* rectangle and with every margin                                          *)
GeneratorsReturn == pc # "spinning"

(* C11: when the margins meet or exceed the logical page (spacing > 0) no   *)
(* generator loops without end or fails, every sheet holds an empty or      *)
(* truncated pattern, and create_notebook_pdf goes on to emit all           *)
(* sheets_needed page breaks and to save the document.                      *)
C11_DegenerateCompletes ==
    /\ [](Degenerate => pc \notin {"spinning", "error"})
    /\ [](Degenerate => \A i \in 0..(Cardinality(Breaks) - 1) : Truncated(i))
    /\ [](Degenerate /\ pc = "done" => Completed)
    /\ (Degenerate ~> Completed)

C11_Witness ==
    /\ Degenerate /\ Completed /\ sheets_needed = 2 /\ config.pages_per_sheet = 2
    /\ config.pattern = "dotted" /\ config.margin_top = MaxMargin

---------------------------------------------------------------------------
(* C12.  What draw_pattern puts out is its calls on the canvas, all of      *)
(* them in the log; a warning would be one more entry of its output.        *)
IsWarning(o) == o.op = "warning"

(* the graphics state draw_pattern hands to the generator it picks *)
PatternGS == setLineWidth(setStrokeColor(InitGS, parse_color(config.line_gray)),
                          config.line_weight)

(* the generator of each of the seven kinds, on the whole page *)
OwnGenerator(kind) ==
    CASE kind = "lined" -> draw_lined(PatternGS, 0, 0, page_width, page_height, config, fp)
      [] kind = "dotted" -> draw_dotted(PatternGS, 0, 0, page_width, page_height, config, fp)
      [] kind = "squared" -> draw_squared(PatternGS, 0, 0, page_width, page_height, config, fp)
      [] kind = "cornell" -> draw_cornell(PatternGS, 0, 0, page_width, page_height, config, fp)
      [] kind = "isometric" ->
             draw_isometric(PatternGS, 0, 0, page_width, page_height, config, fp)
      [] kind = "hexagonal" ->
             draw_hexagonal(PatternGS, 0, 0, page_width, page_height, config, fp)
      [] kind = "blank" -> draw_blank(PatternGS, 0, 0, page_width, page_height, config, fp)

(* on a 1-up sheet: a kind outside the seven draws what the Squared         *)
(* generator draws, each of the seven draws what its own generator draws    *)
C12_Dispatch(i) ==
    Only(SheetSeg(i), IsPattern)
        = IF config.pattern \in Patterns THEN OwnGenerator(config.pattern).ops
          ELSE OwnGenerator("squared").ops

C12_DispatchHolds ==
    config.spacing > 0 /\ config.pages >= 1 /\ config.pages_per_sheet = 1 =>
        \A i \in 0..(Cardinality(Breaks) - 1) : C12_Dispatch(i)

(* C12: a pattern kind outside the seven does not fail: on every sheet a    *)
(* warning is put out, and then exactly the operations of the Squared       *)
(* generator for the same rectangle and configuration; each of the seven    *)
(* kinds goes to its own generator.                                         *)
C12_UnknownPattern ==
    config.spacing > 0 /\ config.pages >= 1 /\ config.pages_per_sheet = 1 =>
        /\ pc # "error"
        /\ \A i \in 0..(Cardinality(Breaks) - 1) :
              /\ C12_Dispatch(i)
              /\ config.pattern \notin Patterns =>
                    \E k \in DOMAIN SheetSeg(i) : IsWarning(SheetSeg(i)[k])

---------------------------------------------------------------------------
(* The dot lattice on rectangles of the size of a small page: the           *)
(* rectangle {0, 0, 100mm, 150mm} and narrower and shorter ones, spacing    *)
(* 5mm, 10mm margins on all sides.                                          *)
ScenarioConfig ==
    [pattern |-> "dotted", spacing |-> 5,
     margin_top |-> 10, margin_bottom |-> 10, margin_left |-> 10, margin_right |-> 10,
     line_gray |-> 75, line_weight |-> 30, pages |-> 1, pages_per_sheet |-> 1,
     header_line |-> "no", page_numbers |-> "no", punch_holes |-> "none",
     page_size |-> "a5", orientation |-> "portrait"]

ScenarioRects ==
    [x : {0}, y : {0}, width : {100 * mm, 98 * mm, 95 * mm},
     height : {150 * mm, 148 * mm, 145 * mm}]

InitScenario ==
    /\ pc = "rect"
    /\ config = ScenarioConfig
    /\ fp \in Roundings
    /\ rect \in ScenarioRects
    /\ sheet = 0
    /\ sheets_needed = 0
    /\ gs = InitGS
    /\ ops = <<>>
    /\ ret = -1
    /\ prev = <<>>

SpecScenario == InitScenario /\ [][GenDotted]_vars

(* C13: draw_dotted on {0, 0, 100mm, 150mm}, spacing 5mm, margins 10mm:     *)
(* exactly 26 rows from the top margin down, the first at y = 140mm and     *)
(* the last at y = 15mm, each of exactly 16 dots from left to right, the    *)
(* first at x = 10mm and the last at x = 85mm; every dot a filled circle    *)
(* of radius 0.6 x stroke weight; no dot on the bottom or the right margin  *)
(* line.                                                                    *)
C13_DottedScenario ==
    pc = "drawn" /\ rect = [x |-> 0, y |-> 0, width |-> 100 * mm, height |-> 150 * mm] =>
        /\ Len(ops) = 26 * 16
        /\ \A k \in DOMAIN ops :
              /\ ops[k].op = "dot"
              /\ ops[k].arg = (config.line_weight * 6) \div 10
              /\ k <= 26 * 16 =>
                    ops[k].pts = << 10 * mm + ((k - 1) % 16) * 5 * mm,
                                    140 * mm - ((k - 1) \div 16) * 5 * mm >>
              /\ ops[k].pts[1] # 90 * mm
              /\ ops[k].pts[2] # 10 * mm

---------------------------------------------------------------------------
(* C14, under SpecGeom.  A line drawn at height v is above the bound b when *)
(* v > b, or when v and b are equal in exact arithmetic and the double v    *)
(* is the greater one (fp.y = 1).                                           *)
Above(v, b) == v > b \/ (v = b /\ fp.y > 0)

LinedTop == rect.y + rect.height - config.margin_top * mm
LinedBottom == rect.y + config.margin_bottom * mm

(* the body lines: all lines, without the header line when there is one *)
BodyLines == IF config.header_line = "yes" /\ ops # <<>> THEN Tail(ops) ELSE ops

(* header and body lines are where the claim puts them *)
C14_Positions ==
    LET s == config.spacing * mm
        x1 == rect.x + config.margin_left * mm
        x2 == rect.x + rect.width - config.margin_right * mm
        first == LinedTop - (IF config.header_line = "yes" THEN 2 ELSE 1) * s
    IN  /\ config.header_line = "yes" =>
              /\ Len(ops) >= 1
              /\ Strip(ops[1]) = Strip(line(InitGS, x1, LinedTop, x2, LinedTop))
        /\ \A k \in DOMAIN BodyLines :
              /\ Strip(BodyLines[k])
                    = Strip(line(InitGS, x1, first - (k - 1) * s, x2, first - (k - 1) * s))
              /\ Above(BodyLines[k].pts[2], LinedBottom)

C14_PositionsHold == pc = "drawn" /\ config.pattern = "lined" => C14_Positions

(* C14: draw_lined, any rectangle, margins and spacing > 0: no line, the    *)
(* header line included, is at or below y + margin_bottom; without          *)
(* header_line the first body line is at top - spacing; with header_line    *)
(* there is exactly one header line, at y = top, and the first body line    *)
(* is at top - 2 * spacing; consecutive body lines are spacing apart, from  *)
(* the top down.                                                            *)
C14_Lined ==
    pc = "drawn" /\ config.pattern = "lined" =>
        /\ C14_Positions
        /\ config.header_line = "yes" => ops[1].pts[2] > LinedBottom

---------------------------------------------------------------------------
(* Two runs of create_notebook_pdf on one configuration: when the first     *)
(* has returned, the second starts on a canvas of its own, and the first    *)
(* run's log is kept for comparison.                                        *)
Rerun ==
    /\ pc = "done"
    /\ prev = <<>>
    /\ prev' = ops
    /\ ops' = <<>>
    /\ gs' = InitGS
    /\ sheet' = 0
    /\ sheets_needed' = 0
    /\ ret' = -1
    /\ pc' = "start"
    /\ UNCHANGED <<config, fp, rect>>

NextTwice == Next \/ Rerun

SpecTwice == Init /\ [][NextTwice]_vars

(* a sheet's operations, page-number labels aside (they differ by design) *)
Unlabelled(i) == Only(SheetSeg(i), LAMBDA o : ~IsLabel(o))

---------------------------------------------------------------------------
(* C16.  The logical pages of a sheet, by arity *)
PageRects ==
    CASE config.pages_per_sheet = 2 -> {LeftPage, RightPage}
      [] config.pages_per_sheet = 4 -> {Quadrants[q] : q \in 1..4}
      [] OTHER -> {[x |-> 0, y |-> 0, width |-> page_width, height |-> page_height]}

(* the number of fold guides that close a sheet *)
GuideCount ==
    CASE config.pages_per_sheet = 2 -> 1
      [] config.pages_per_sheet = 4 -> 2
      [] OTHER -> 0

(* o has the geometry of a fold guide: a midline of the sheet *)
GuideGeometry(o) ==
    /\ o.op = "line"
    /\ \/ o.pts = <<page_width \div 2, 0, page_width \div 2, page_height>>
       \/ /\ config.pages_per_sheet = 4
          /\ o.pts = <<0, page_height \div 2, page_width, page_height \div 2>>

(* o is the header line of a Lined page: the line at y = top between the    *)
(* side margins                                                             *)
IsHeaderLine(o) ==
    /\ config.pattern = "lined" /\ config.header_line = "yes" /\ o.op = "line"
    /\ \E r \in PageRects :
          LET top == r.y + r.height - config.margin_top * mm
          IN  o.pts = <<r.x + config.margin_left * mm, top,
                        r.x + r.width - config.margin_right * mm, top>>

(* o is one of the two dividers of a Cornell page *)
IsDivider(o) ==
    /\ config.pattern = "cornell" /\ o.op = "line"
    /\ \E r \in PageRects :
          LET margin == config.margin_left * mm
              cue_x == r.x + (r.width * 25) \div 100
              summary_y == r.y + (r.height * 15) \div 100
          IN  \/ o.pts = <<cue_x, summary_y, cue_x, r.y + r.height - margin>>
              \/ o.pts = <<r.x + margin, summary_y, r.x + r.width - margin, summary_y>>

(* the stroke a pattern primitive is to be drawn with *)
PatternStroke(o) ==
    /\ o.st.gray = config.line_gray
    /\ ~o.st.dash
    /\ o.st.lw = IF IsHeaderLine(o) THEN (config.line_weight * 3) \div 2
                 ELSE IF IsDivider(o) THEN config.line_weight * 2
                 ELSE config.line_weight

(* C16: on any sheet of any arity a heavier stroke weight is in force only  *)
(* for the Lined header line (1.5 x) and the two Cornell dividers (2 x);    *)
(* every other pattern primitive, on every logical page, is drawn with the  *)
(* configured gray and the base weight and undashed; the fold-guide stroke  *)
(* (gray 0.9, width 0.2, dashed) is that of the fold guides, which close    *)
(* the sheet, and of nothing else; and the dash is cleared when             *)
(* create_imposed_page returns.                                             *)
C16_Strokes ==
    ValidRun =>
        /\ pc = "page" => ~gs.dash
        /\ \A i \in 0..(Cardinality(Breaks) - 1) :
              LET seg == SheetSeg(i)
                  m == Len(seg)
              IN  /\ m >= GuideCount
                  /\ \A k \in 1..m :
                        IF k > m - GuideCount
                        THEN /\ GuideGeometry(seg[k])
                             /\ seg[k].st.gray = 90 /\ seg[k].st.lw = 20 /\ seg[k].st.dash
                        ELSE /\ ~seg[k].st.dash
                             /\ ~(seg[k].st.gray = 90 /\ seg[k].st.lw = 20)
                             /\ IsLabel(seg[k]) \/ IsHole(seg[k]) \/ PatternStroke(seg[k])

C16_Witness ==
    /\ pc = "done" /\ config.pages_per_sheet = 2 /\ config.pages = 3
    /\ config.pattern = "lined" /\ config.header_line = "yes" /\ config.spacing > 0
    /\ config.margin_top = 1
    /\ \E k \in DOMAIN ops : IsHeaderLine(ops[k]) /\ ops[k].st.lw = 45
    /\ \E k \in DOMAIN ops : ops[k].op = "line" /\ ops[k].st.lw = 30
    /\ \E k \in DOMAIN ops : ops[k].st.dash

---------------------------------------------------------------------------
(* C17.  The numbers of the labels in the log, in the order of emission *)
LabelNumbers == [k \in DOMAIN Only(ops, IsLabel) |-> Only(ops, IsLabel)[k].arg]

(* a finished run with page numbers, 1 or 2 pages per sheet *)
NumberedRun ==
    /\ pc = "done" /\ config.pages >= 1 /\ config.pages_per_sheet \in {1, 2}
    /\ config.page_numbers = "yes" /\ config.spacing > 0

(* the labels are 1, 2, ... without gap or repetition, and reach the last page *)
C17_ConsecutiveHolds ==
    NumberedRun =>
        /\ \A k \in DOMAIN LabelNumbers : LabelNumbers[k] = k
        /\ Len(LabelNumbers) >= config.pages

(* C17: with 1 or 2 pages per sheet and page numbers on, the labels         *)
(* stamped over the whole document are, in order of emission, exactly       *)
(* 1, 2, ..., total_pages: none repeated or skipped, and none greater than  *)
(* total_pages, also when total_pages is not a multiple of pages_per_sheet. *)
C17_PageNumbers ==
    NumberedRun => LabelNumbers = [k \in 1..config.pages |-> k]

---------------------------------------------------------------------------
(* The simplified variant, src/generate_patterns.py.  Its functions bear    *)
(* the names of generate.py's; here they carry the prefix simple_.  The     *)
(* configuration is the argument list of create_pattern_pdf; page_w and    *)
(* page_h are the source's page_width and page_height.                     *)

(* get_pagesize: A4 or A5, any other choice A4; the model's page again *)
simple_get_pagesize(choice, orientation) ==
    IF orientation = "landscape" THEN <<PageH * mm, PageW * mm>>
    ELSE <<PageW * mm, PageH * mm>>

simple_draw_lined(g, page_w, page_h, spacing, margin, f) ==
    LET y(k) == page_h - margin - spacing - k * spacing
    IN  Loop(g, Iter(LAMBDA k : FGt(y(k), margin, f.y)),
             LAMBDA k : Res(<<line(g, margin, y(k), page_w - margin, y(k))>>, g, TRUE))

simple_draw_dotted(g, page_w, page_h, spacing, margin, f) ==
    LET y(j) == page_h - margin - j * spacing
        x(k) == margin + k * spacing
        row(j) == Loop(g, Iter(LAMBDA k : FLt(x(k), page_w - margin, f.x)),
                       LAMBDA k : Res(<<circleFill(g, x(k), y(j), 40)>>, g, TRUE))
    IN  Loop(g, Iter(LAMBDA j : FGt(y(j), margin, f.y)), row)

simple_draw_squared(g, page_w, page_h, spacing, margin, f) ==
    LET x(k) == margin + k * spacing
        y(k) == margin + k * spacing
    IN  Then(Loop(g, Iter(LAMBDA k : FLt(x(k), page_w - margin, f.x)),
                  LAMBDA k : Res(<<line(g, x(k), margin, x(k), page_h - margin)>>,
                                 g, TRUE)),
             LAMBDA h : Loop(h, Iter(LAMBDA k : FLt(y(k), page_h - margin, f.y)),
                             LAMBDA k : Res(<<line(h, margin, y(k), page_w - margin, y(k))>>,
                                            h, TRUE)))

(* draw_lined_split: y is lowered before each line is drawn *)
draw_lined_split(g, page_w, page_h, spacing, margin, f) ==
    LET half_width == page_w \div 2
        box_width == half_width - 2 * margin
        box_height == page_h - 2 * margin
        left_x == margin
        left_y == margin
        right_x == half_width + margin
        right_y == margin
        y(k) == left_y + box_height - margin - (k + 1) * spacing
        column(h, x0, y0) ==
            Loop(h, Iter(LAMBDA k : FGt(y(k), y0 + margin, f.y)),
                 LAMBDA k : Res(<<line(h, x0 + margin, y(k), x0 + box_width - margin, y(k))>>,
                                h, TRUE))
    IN  Then(column(g, left_x, left_y), LAMBDA h : column(h, right_x, right_y))

KnownSimple == {"lined", "dotted", "squared"}

SimpleConfigs ==
    [pattern : KnownSimple \cup {"stars", "isometric"},
     pagesize : {"a4"}, orientation : {"portrait", "landscape"},
     spacing : {0, 1, MaxSpacing}, margin : {0, 1}, split : BOOLEAN]

InitSimple ==
    /\ pc = "start"
    /\ config \in SimpleConfigs
    /\ fp \in Roundings
    /\ rect = [x |-> 0, y |-> 0,
               width |-> simple_get_pagesize(config.pagesize, config.orientation)[1],
               height |-> simple_get_pagesize(config.pagesize, config.orientation)[2]]
    /\ sheet = 0
    /\ sheets_needed = 1
    /\ gs = InitGS
    /\ ops = <<>>
    /\ ret = -1
    /\ prev = <<>>

(* create_pattern_pdf up to c.showPage(): the pattern is drawn *)
SimpleDraw ==
    /\ pc = "start"
    /\ config.pattern \in KnownSimple
    /\ LET spacing == config.spacing * mm
           margin == config.margin * mm
           r == CASE config.pattern = "lined" /\ config.split ->
                         draw_lined_split(gs, rect.width, rect.height, spacing, margin, fp)
                  [] config.pattern = "lined" /\ ~config.split ->
                         simple_draw_lined(gs, rect.width, rect.height, spacing, margin, fp)
                  [] config.pattern = "dotted" ->
                         simple_draw_dotted(gs, rect.width, rect.height, spacing, margin, fp)
                  [] config.pattern = "squared" ->
                         simple_draw_squared(gs, rect.width, rect.height, spacing, margin, fp)
       IN  /\ ops' = ops \o r.ops
           /\ pc' = IF r.ok THEN "page" ELSE "spinning"
    /\ UNCHANGED <<config, fp, rect, prev, sheet, sheets_needed, gs, ret>>

(* A faulty create_pattern_pdf that takes an unknown pattern to the page    *)
(* break instead of raising; C18 tells it from the real one.                *)
SimpleRaise_silent ==
    /\ pc = "start"
    /\ config.pattern \notin KnownSimple
    /\ pc' = "page"
    /\ UNCHANGED <<config, fp, rect, prev, sheet, sheets_needed, gs, ops, ret>>

(* raise ValueError("Unknown pattern") *)
SimpleRaise ==
    /\ pc = "start"
    /\ config.pattern \notin KnownSimple
    /\ pc' = "error"
    /\ UNCHANGED <<config, fp, rect, prev, sheet, sheets_needed, gs, ops, ret>>

SimpleShowPage ==
    /\ pc = "page"
    /\ ops' = Append(ops, showPage(gs))
    /\ gs' = InitGS
    /\ sheet' = sheet + 1
    /\ pc' = "shown"
    /\ UNCHANGED <<config, fp, rect, prev, sheets_needed, ret>>

SimpleSave ==
    /\ pc = "shown"
    /\ ops' = Append(ops, save(gs))
    /\ pc' = "done"
    /\ UNCHANGED <<config, fp, rect, prev, sheet, sheets_needed, gs, ret>>

NextSimple == SimpleDraw \/ SimpleRaise \/ SimpleShowPage \/ SimpleSave \/ Spin

SpecSimple == InitSimple /\ [][NextSimple]_vars

(* C18: create_pattern_pdf with a pattern other than lined, dotted,         *)
(* squared raises ValueError before any drawing operation, page break or    *)
(* save reaches the canvas: no document is written; for the three known     *)
(* patterns there is exactly one page break, followed by exactly one save.  *)
C18_SimpleVariant ==
    LET saves == {k \in DOMAIN ops : ops[k].op = "save"}
    IN  /\ config.pattern \notin KnownSimple =>
              ops = <<>> /\ pc \in {"start", "error"}
        /\ config.pattern \in KnownSimple =>
              /\ pc \notin {"error"}
              /\ Cardinality(Breaks) <= 1 /\ Cardinality(saves) <= 1
              /\ \A b \in Breaks : \A k \in DOMAIN ops : k < b => IsDrawing(ops[k])
              /\ \A k \in saves : k = Len(ops) /\ Breaks = {k - 1}
              /\ pc = "done" => Cardinality(Breaks) = 1 /\ saves = {Len(ops)}

C18_Raised == pc = "error" /\ config.pattern = "isometric" /\ ops = <<>>

C18_Witness ==
    /\ pc = "done" /\ config.pattern = "lined" /\ config.split
    /\ Len(ops) >= 4 /\ ops[Len(ops)].op = "save" /\ ops[Len(ops) - 1].op = "showPage"

===========================================================================
